---- MODULE Spec2Model ----
(***************************************************************************)
(* Model of components/sceneutil/lightmanager.cpp: the LightManager        *)
(* (registry of the lights of the current frame, cache of light-list       *)
(* StateSets), its update callback, and the CullCallback that selects the  *)
(* lights of a node.                                                       *)
(*                                                                         *)
(* Geometry is one-dimensional: a matrix is a translation (an integer), a  *)
(* bounding sphere is a centre and a radius.  The cache key is the 64-bit  *)
(* size_t computed by boost::hash_combine, kept at its width as four       *)
(* 16-bit limbs (least significant first).                                 *)
(***************************************************************************)
EXTENDS Integers, Sequences, FiniteSets, TLC

VARIABLES
    exists,              \* the LightManager instances constructed so far
    mLights,             \* per manager: std::vector<LightSourceTransform>
    mLightsInViewSpace,  \* per manager: bool
    mDecorated,          \* per manager: bool
    mStateSetCache,      \* per manager: std::map<size_t, ref_ptr<StateSet>>
    cullCallbacks,       \* per attach node: the managers of its CullCallbacks
    registered,          \* per manager: the addLight calls since its last update()
    returned,            \* per manager: (list, StateSet) of the getLightListStateSet calls since its last update()
    last,                \* the operation that returned last, with its arguments and result
    stateSetStack,       \* the StateSet stack of the cull visitor (ids, top last)
    mCollectManager,     \* per light source: mLightManager of its CollectLightCallback (0 is null)
    layout,              \* the scene of the current update traversal (0: none yet)
    pos,                 \* the number of update callbacks of the traversal that have run
    frameLog             \* per manager: the registrations made during the current update traversal

traversalVars == <<mCollectManager, layout, pos, frameLog>>

vars == <<exists, mLights, mLightsInViewSpace, mDecorated, mStateSetCache,
          cullCallbacks, registered, returned, last, stateSetStack, traversalVars>>

-----------------------------------------------------------------------------
(* Bounds and input alphabets *)

MaxLights == 2
MaxCullLights == 10
MaxHashLights == 62
MaxCopyLights == 1
MaxFrameLights == 3
MaxRenderLights == 2
MaxStack == 1

Mgrs == {1, 2}
LightSources == {1, 2}
Cameras == {1, 2}
Nodes == {1, 2}
\* the (light source, world matrix) pairs registered by the host
LightInputs == {<<1, 0>>, <<2, 4>>}

HostLists == {<<>>, <<0>>, <<1>>, <<0, 1>>, <<1, 0>>, <<0, 0>>}
CullLightInputs == {<<1, 0>>, <<1, 4>>}
CullNodes == {1}
CullCameras == {1}
HashLightInputs == {<<1, 0>>}
CopyLightInputs == {<<1, 0>>}
HashLists == {<<0, 61>>, <<1, 0>>, <<0, 1, 2, 3, 4, 5, 6, 7, 8>>}
RenderLists == {<<0>>, <<1, 0>>}

-----------------------------------------------------------------------------
(* The scene: light sources, cameras, the parents of the Geodes *)

Radius(e) == e
LightPosition(e) == e - 1
ViewMatrix(cam) == IF cam = 1 THEN 0 ELSE 3
NodeBound(n) == IF n = 1 THEN [center |-> 0, radius |-> 1] ELSE [center |-> 6, radius |-> 1]
ModelViewMatrix(n, cam) == ViewMatrix(cam)

\* A node with an update callback, as the update traversal reaches it: its
\* node path (root first; a LightManager by its number, any other node 0) and
\* the local-to-world matrix of that path.
ManagerNode(m, path) == [kind |-> "manager", id |-> m, path |-> path, world |-> 0]
LightNode(e, path, world) == [kind |-> "light", id |-> e, path |-> path, world |-> world]

\* The scenes, each as its nodes with update callbacks in depth-first order:
\*   1: root - manager 1 - {light 1, light 2}
\*   2: root - manager 1 - manager 2 - light 1
\*   3: root - {manager 2 - light 1, manager 1 - light 2}
\*   4: root - {manager 1 - light 1, light 2}
Layouts ==
    << <<ManagerNode(1, <<0, 1>>), LightNode(1, <<0, 1, 0>>, 0), LightNode(2, <<0, 1, 0>>, 4)>>,
       <<ManagerNode(1, <<0, 1>>), ManagerNode(2, <<0, 1, 2>>), LightNode(1, <<0, 1, 2, 0>>, 0)>>,
       <<ManagerNode(2, <<0, 2>>), LightNode(1, <<0, 2, 0>>, 4),
         ManagerNode(1, <<0, 1>>), LightNode(2, <<0, 1, 0>>, 4)>>,
       <<ManagerNode(1, <<0, 1>>), LightNode(1, <<0, 1, 0>>, 0), LightNode(2, <<0, 0>>, 0)>> >>

Scene(l) == IF l = 0 THEN <<>> ELSE Layouts[l]

-----------------------------------------------------------------------------
(* osg::BoundingSphere *)

InvalidBound == [center |-> 0, radius |-> -1]
valid(bs) == bs.radius >= 0

intersects(a, b) ==
    /\ valid(a)
    /\ valid(b)
    /\ (a.center - b.center) * (a.center - b.center)
          <= (a.radius + b.radius) * (a.radius + b.radius)

transformBoundingSphere(mat, bs) == [center |-> bs.center + mat, radius |-> bs.radius]

-----------------------------------------------------------------------------
(* size_t arithmetic and boost::hash_combine *)

LimbBase == 2 ^ 16
ZeroWord == <<0, 0, 0, 0>>
\* 0x9e3779b9
GoldenRatio == <<31161, 40503, 0, 0>>

hash_value(v) == <<v % LimbBase, (v \div LimbBase) % LimbBase, 0, 0>>

\* a + b modulo 2^64
WordAdd(a, b) ==
    LET s1 == a[1] + b[1]
        s2 == a[2] + b[2] + (s1 \div LimbBase)
        s3 == a[3] + b[3] + (s2 \div LimbBase)
        s4 == a[4] + b[4] + (s3 \div LimbBase)
    IN <<s1 % LimbBase, s2 % LimbBase, s3 % LimbBase, s4 % LimbBase>>

ShiftLeft6(a) ==
    <<(a[1] * 64) % LimbBase,
      ((a[2] * 64) % LimbBase) + (a[1] \div 1024),
      ((a[3] * 64) % LimbBase) + (a[2] \div 1024),
      ((a[4] * 64) % LimbBase) + (a[3] \div 1024)>>

ShiftRight2(a) ==
    <<(a[1] \div 4) + ((a[2] % 4) * 16384),
      (a[2] \div 4) + ((a[3] % 4) * 16384),
      (a[3] \div 4) + ((a[4] % 4) * 16384),
      a[4] \div 4>>

RECURSIVE BitXor(_, _, _)
BitXor(x, y, n) ==
    IF n = 0 THEN 0
    ELSE ((x + y) % 2) + 2 * BitXor(x \div 2, y \div 2, n - 1)

\* the exclusive or of two 4-bit numbers
NibbleXor == [x \in 0 .. 15 |-> [y \in 0 .. 15 |-> BitXor(x, y, 4)]]

LimbXor(x, y) ==
    NibbleXor[x % 16][y % 16]
      + 16 * NibbleXor[(x \div 16) % 16][(y \div 16) % 16]
      + 256 * NibbleXor[(x \div 256) % 16][(y \div 256) % 16]
      + 4096 * NibbleXor[x \div 4096][y \div 4096]

WordXor(a, b) ==
    <<LimbXor(a[1], b[1]), LimbXor(a[2], b[2]), LimbXor(a[3], b[3]), LimbXor(a[4], b[4])>>

\* seed ^= hash_value(v) + 0x9e3779b9 + (seed << 6) + (seed >> 2)
hash_combine(seed, v) ==
    LET t1 == WordAdd(hash_value(v), GoldenRatio)
        t2 == WordAdd(t1, ShiftLeft6(seed))
        t3 == WordAdd(t2, ShiftRight2(seed))
    IN WordXor(seed, t3)

RECURSIVE HashPrefix(_, _)
HashPrefix(lightList, n) ==
    IF n = 0 THEN ZeroWord
    ELSE hash_combine(HashPrefix(lightList, n - 1), lightList[n])

hashLightList(lightList) == HashPrefix(lightList, Len(lightList))

-----------------------------------------------------------------------------
(* LightManager: the pure parts of its methods *)

EmptyCache == [h \in {} |-> 0]

NoCall == [op |-> "construct", mgr |-> 0, node |-> 0, cam |-> 0,
           called |-> FALSE, list |-> <<>>, built |-> FALSE,
           ret |-> [id |-> [from |-> <<>>, serial |-> 0], attrs |-> EmptyCache],
           source |-> 0, path |-> <<>>, threw |-> FALSE,
           traversals |-> 0, entry |-> <<>>, during |-> <<>>]

LightSourceTransform(lightSource, worldMat) ==
    [mLightSource |-> lightSource, mWorldMatrix |-> worldMat, mViewBound |-> InvalidBound]

pushBackLightUnique(lights, l) ==
    IF \E i \in 1 .. Len(lights) : lights[i].mLightSource = l.mLightSource
    THEN lights
    ELSE Append(lights, l)

pushBackLight(lights, l) == Append(lights, l)

ClearLights(lights) == <<>>

KeepStateSetCache(cache) == cache

ClearStateSetCache(cache) == EmptyCache

AlwaysNeedsViewSpace(inViewSpace) == TRUE

NeedsViewSpace(inViewSpace) == ~inViewSpace

viewBoundOf(l, cam) ==
    transformBoundingSphere(l.mWorldMatrix + ViewMatrix(cam),
                            [center |-> 0, radius |-> Radius(l.mLightSource)])

ToggleViewSpace(inViewSpace) == ~inViewSpace

\* mLightsInViewSpace = true
MarkViewSpace(inViewSpace) == TRUE

lightsForCamera(lights, inViewSpace, cam) ==
    IF NeedsViewSpace(inViewSpace)
    THEN [i \in 1 .. Len(lights) |-> [lights[i] EXCEPT !.mViewBound = viewBoundOf(lights[i], cam)]]
    ELSE lights

\* A StateSet object is identified by the list it was built for and a serial
\* number among the StateSets built for that list that are still referenced.
StateSetsInUse ==
    UNION {{mStateSetCache[m][h].id : h \in DOMAIN mStateSetCache[m]} : m \in Mgrs}
      \cup UNION {{r.id : r \in returned[m]} : m \in Mgrs}

\* new osg::StateSet: an object distinct from every one in use
NewStateSet(lightList) ==
    LET used == {id.serial : id \in {x \in StateSetsInUse : x.from = lightList}}
    IN [from |-> lightList,
        serial |-> CHOOSE k \in 1 .. (Cardinality(used) + 1) :
                      k \notin used /\ \A j \in 1 .. (k - 1) : j \in used]

\* the deep copy of the light of record lightIndex, positioned by the record's world matrix
clonedLight(lights, lightIndex) ==
    [light |-> lights[lightIndex + 1].mLightSource,
     position |-> LightPosition(lights[lightIndex + 1].mLightSource)
                      + lights[lightIndex + 1].mWorldMatrix]

lightNumOfIndex(i, lightIndex) == lightIndex

\* clonedLight->setLightNum(i)
lightNum(i, lightIndex) == i

\* StateSet::setAttribute: one attribute per (type, light number)
setAttribute(attrs, num, attr) ==
    [k \in DOMAIN attrs \cup {num} |-> IF k = num THEN attr ELSE attrs[k]]

\* the attributes after the first n iterations of the loop of getLightListStateSet
RECURSIVE buildAttributes(_, _, _)
buildAttributes(lights, lightList, n) ==
    IF n = 0 THEN EmptyCache
    ELSE setAttribute(buildAttributes(lights, lightList, n - 1),
                      lightNum(n - 1, lightList[n]),
                      clonedLight(lights, lightList[n]))

cacheNeverFound(cache, hash) == FALSE

cacheFound(cache, hash) == hash \in DOMAIN cache

cacheReplace(cache, hash, stateset) == [h \in {hash} |-> stateset]

\* std::map::insert: an existing key keeps its value
cacheInsert(cache, hash, stateset) ==
    IF hash \in DOMAIN cache THEN cache
    ELSE [h \in DOMAIN cache \cup {hash} |-> IF h = hash THEN stateset ELSE cache[h]]

\* the cache after and the StateSet returned by getLightListStateSet(lightList)
lightListStateSet(cache, lights, lightList, newId) ==
    LET hash == hashLightList(lightList) IN
    IF cacheFound(cache, hash)
    THEN [cache |-> cache, ret |-> cache[hash], built |-> FALSE]
    ELSE LET stateset == [id |-> newId,
                          attrs |-> buildAttributes(lights, lightList, Len(lightList))]
         IN [cache |-> cacheInsert(cache, hash, stateset), ret |-> stateset, built |-> TRUE]

collectEveryLight(lights, nodeBound, n) == [i \in 1 .. n |-> i - 1]

RECURSIVE collectUntilMiss(_, _, _)
collectUntilMiss(lights, nodeBound, n) ==
    IF n = 0 THEN <<>>
    ELSE IF intersects(lights[n].mViewBound, nodeBound)
         THEN Append(collectUntilMiss(lights, nodeBound, n - 1), n - 1)
         ELSE <<>>

\* CullCallback: the indices of the lights whose view bound intersects nodeBound
RECURSIVE collectLightList(_, _, _)
collectLightList(lights, nodeBound, n) ==
    IF n = 0 THEN <<>>
    ELSE LET before == collectLightList(lights, nodeBound, n - 1) IN
         IF intersects(lights[n].mViewBound, nodeBound)
         THEN Append(before, n - 1)
         ELSE before

MaxLightsPerStateSet == 8

RECURSIVE truncateLightListFront(_)
truncateLightListFront(lightList) ==
    IF Len(lightList) > MaxLightsPerStateSet
    THEN truncateLightListFront(Tail(lightList))
    ELSE lightList

\* while (lightList.size() > 8) lightList.pop_back();
RECURSIVE truncateLightList(_)
truncateLightList(lightList) ==
    IF Len(lightList) > MaxLightsPerStateSet
    THEN truncateLightList(SubSeq(lightList, 1, Len(lightList) - 1))
    ELSE lightList

\* osgUtil::CullVisitor::pushStateSet
pushStateSet(stack, id) == Append(stack, id)

keepStateSet(stack) == stack

\* osgUtil::CullVisitor::popStateSet
popStateSet(stack) == SubSeq(stack, 1, Len(stack) - 1)

\* AttachCullCallbackVisitor: a CullCallback on the parent of every Geode
decorateGeodes(callbacks, m) == [n \in Nodes |-> Append(callbacks[n], m)]

ShouldDecorate(decorated) == ~decorated

-----------------------------------------------------------------------------
(* Initial state: one default-constructed LightManager *)

Init ==
    /\ exists = {1}
    /\ mLights = [m \in Mgrs |-> <<>>]
    /\ mLightsInViewSpace = [m \in Mgrs |-> FALSE]
    /\ mDecorated = [m \in Mgrs |-> FALSE]
    /\ mStateSetCache = [m \in Mgrs |-> EmptyCache]
    /\ cullCallbacks = [n \in Nodes |-> <<>>]
    /\ registered = [m \in Mgrs |-> <<>>]
    /\ returned = [m \in Mgrs |-> {}]
    /\ last = NoCall
    /\ stateSetStack = <<>>
    /\ mCollectManager = [e \in LightSources |-> 0]
    /\ layout = 0
    /\ pos = 0
    /\ frameLog = [m \in Mgrs |-> <<>>]

-----------------------------------------------------------------------------
(* Operations *)

\* LightManager::LightManager(const LightManager& copy, copyop), children shared
CopyConstruct(copy, m) ==
    /\ copy \in exists
    /\ m \notin exists
    /\ exists' = exists \cup {m}
    /\ mLightsInViewSpace' = [mLightsInViewSpace EXCEPT ![m] = FALSE]
    /\ mDecorated' = [mDecorated EXCEPT ![m] = mDecorated[copy]]
    /\ mLights' = [mLights EXCEPT ![m] = <<>>]
    /\ mStateSetCache' = [mStateSetCache EXCEPT ![m] = EmptyCache]
    /\ last' = [NoCall EXCEPT !.op = "copy", !.mgr = m]
    /\ UNCHANGED <<cullCallbacks, registered, returned, stateSetStack, traversalVars>>

\* LightManager::update
LightManager_update(m) ==
    /\ m \in exists
    /\ mLightsInViewSpace' = [mLightsInViewSpace EXCEPT ![m] = FALSE]
    /\ mLights' = [mLights EXCEPT ![m] = ClearLights(mLights[m])]
    /\ mStateSetCache' = [mStateSetCache EXCEPT ![m] = ClearStateSetCache(mStateSetCache[m])]
    /\ IF ShouldDecorate(mDecorated[m])
       THEN /\ cullCallbacks' = decorateGeodes(cullCallbacks, m)
            /\ mDecorated' = [mDecorated EXCEPT ![m] = TRUE]
       ELSE UNCHANGED <<cullCallbacks, mDecorated>>
    /\ registered' = [registered EXCEPT ![m] = <<>>]
    /\ returned' = [returned EXCEPT ![m] = {}]
    /\ UNCHANGED <<exists, stateSetStack>>

\* update() called by the host
update(m) ==
    /\ LightManager_update(m)
    /\ last' = [NoCall EXCEPT !.op = "update", !.mgr = m]
    /\ UNCHANGED traversalVars

\* LightManager::addLight
LightManager_addLight(m, lightSource, worldMat) ==
    /\ m \in exists
    /\ mLights' = [mLights EXCEPT
                     ![m] = pushBackLight(mLights[m], LightSourceTransform(lightSource, worldMat))]
    /\ registered' = [registered EXCEPT ![m] = Append(registered[m], <<lightSource, worldMat>>)]
    /\ UNCHANGED <<exists, mLightsInViewSpace, mDecorated, mStateSetCache, cullCallbacks,
                   returned, stateSetStack>>

\* addLight() called by the host
addLight(m, lightSource, worldMat) ==
    /\ LightManager_addLight(m, lightSource, worldMat)
    /\ last' = [NoCall EXCEPT !.op = "addLight", !.mgr = m]
    /\ UNCHANGED traversalVars

\* LightManager::prepareForCamera
prepareForCamera(m, cam) ==
    /\ m \in exists
    /\ mLights' = [mLights EXCEPT ![m] = lightsForCamera(mLights[m], mLightsInViewSpace[m], cam)]
    /\ mLightsInViewSpace' = [mLightsInViewSpace EXCEPT ![m] = MarkViewSpace(@)]
    /\ last' = [NoCall EXCEPT !.op = "prepareForCamera", !.mgr = m, !.cam = cam]
    /\ UNCHANGED <<exists, mDecorated, mStateSetCache, cullCallbacks, registered, returned,
                   stateSetStack, traversalVars>>

\* every index of the list is an index of mLights
ValidLightList(m, lightList) ==
    \A i \in 1 .. Len(lightList) : lightList[i] >= 0 /\ lightList[i] < Len(mLights[m])

\* LightManager::getLightListStateSet
getLightListStateSet(m, lightList) ==
    /\ m \in exists
    /\ \E r \in {lightListStateSet(mStateSetCache[m], mLights[m], lightList, NewStateSet(lightList))} :
       /\ mStateSetCache' = [mStateSetCache EXCEPT ![m] = r.cache]
       /\ returned' = [returned EXCEPT ![m] = @ \cup {[list |-> lightList, id |-> r.ret.id]}]
       /\ last' = [NoCall EXCEPT !.op = "getLightListStateSet", !.mgr = m, !.called = TRUE,
                                 !.list = lightList, !.ret = r.ret, !.built = r.built]
    /\ UNCHANGED <<exists, mLights, mLightsInViewSpace, mDecorated, cullCallbacks, registered,
                   stateSetStack, traversalVars>>

\* CullCallback::operator() of a callback of manager m at node n, culling for camera cam
CullCallback(m, n, cam) ==
    /\ m \in exists
    /\ LET lights == lightsForCamera(mLights[m], mLightsInViewSpace[m], cam)
           nodeBound == transformBoundingSphere(ModelViewMatrix(n, cam), NodeBound(n))
           lightList == truncateLightList(collectLightList(lights, nodeBound, Len(lights)))
       IN
       \E r \in {lightListStateSet(mStateSetCache[m], lights, lightList, NewStateSet(lightList))} :
       /\ mLights' = [mLights EXCEPT ![m] = lights]
       /\ mLightsInViewSpace' = [mLightsInViewSpace EXCEPT ![m] = MarkViewSpace(@)]
       /\ IF Len(lights) > 0 /\ lightList # <<>>
          THEN /\ mStateSetCache' = [mStateSetCache EXCEPT ![m] = r.cache]
               /\ returned' = [returned EXCEPT ![m] = @ \cup {[list |-> lightList, id |-> r.ret.id]}]
               /\ stateSetStack' = popStateSet(pushStateSet(stateSetStack, r.ret.id))
               /\ last' = [NoCall EXCEPT !.op = "cull", !.mgr = m, !.node = n, !.cam = cam,
                                         !.called = TRUE, !.list = lightList, !.ret = r.ret,
                                         !.built = r.built, !.traversals = 1,
                                         !.entry = stateSetStack,
                                         !.during = pushStateSet(stateSetStack, r.ret.id)]
          ELSE /\ last' = [NoCall EXCEPT !.op = "cull", !.mgr = m, !.node = n, !.cam = cam,
                                         !.traversals = 1, !.entry = stateSetStack,
                                         !.during = stateSetStack]
               /\ UNCHANGED <<mStateSetCache, returned, stateSetStack>>
    /\ UNCHANGED <<exists, mDecorated, cullCallbacks, registered, traversalVars>>

\* the StateSet of an ordinary node of the scene
NodeStateSet == [from |-> <<>>, serial |-> 0]

\* the cull traversal pushes the StateSet of a node above the decorated nodes
CullVisitor_pushStateSet ==
    /\ Len(stateSetStack) < MaxStack
    /\ stateSetStack' = pushStateSet(stateSetStack, NodeStateSet)
    /\ last' = [NoCall EXCEPT !.op = "pushStateSet"]
    /\ UNCHANGED <<exists, mLights, mLightsInViewSpace, mDecorated, mStateSetCache,
                   cullCallbacks, registered, returned, traversalVars>>

\* the cull traversal leaves that node
CullVisitor_popStateSet ==
    /\ Len(stateSetStack) > 0
    /\ stateSetStack' = popStateSet(stateSetStack)
    /\ last' = [NoCall EXCEPT !.op = "popStateSet"]
    /\ UNCHANGED <<exists, mLights, mLightsInViewSpace, mDecorated, mStateSetCache,
                   cullCallbacks, registered, returned, traversalVars>>

\* the traversal of the children of the manager is the rest of the update traversal
LightManagerUpdateCallback(m) ==
    /\ pos < Len(Scene(layout))
    /\ Scene(layout)[pos + 1].kind = "manager"
    /\ Scene(layout)[pos + 1].id = m
    /\ LightManager_update(m)
    /\ pos' = pos + 1
    /\ last' = [NoCall EXCEPT !.op = "updateCallback", !.mgr = m, !.traversals = 1]
    /\ UNCHANGED <<mCollectManager, layout, frameLog>>

findLightManagerOrFirst(path, i) == 1

\* the first LightManager of the node path, from position i on (0: none)
RECURSIVE findLightManager(_, _)
findLightManager(path, i) ==
    IF i > Len(path) THEN 0
    ELSE IF path[i] # 0 THEN path[i]
    ELSE findLightManager(path, i + 1)

\* mLightManager of the callback after the lookup
resolveLightManager(cached, path) ==
    IF cached = 0 THEN findLightManager(path, 1) ELSE cached

\* CollectLightCallback::operator() of light source e, reached by the update
\* traversal through node path path, with local-to-world matrix world
CollectLightCallback(e, path, world) ==
    /\ pos < Len(Scene(layout))
    /\ Scene(layout)[pos + 1] = LightNode(e, path, world)
    /\ \E mgr \in {resolveLightManager(mCollectManager[e], path)} :
       \/ /\ mgr = 0
          \* the exception leaves the update traversal
          /\ pos' = Len(Scene(layout))
          /\ last' = [NoCall EXCEPT !.op = "collect", !.source = e, !.path = path,
                                    !.threw = TRUE]
          /\ UNCHANGED <<exists, mLights, mLightsInViewSpace, mDecorated, mStateSetCache,
                         cullCallbacks, registered, returned, stateSetStack,
                         mCollectManager, layout, frameLog>>
       \/ /\ mgr # 0
          /\ mCollectManager' = [mCollectManager EXCEPT ![e] = mgr]
          /\ LightManager_addLight(mgr, e, world)
          /\ frameLog' = [frameLog EXCEPT ![mgr] = Append(@, <<e, world>>)]
          /\ pos' = pos + 1
          /\ last' = [NoCall EXCEPT !.op = "collect", !.mgr = mgr, !.source = e,
                                    !.path = path, !.traversals = 1]
          /\ UNCHANGED layout

\* the host starts the update traversal of a frame over scene l
BeginUpdateTraversal(l) ==
    /\ pos = Len(Scene(layout))
    /\ layout' = l
    /\ pos' = 0
    /\ frameLog' = [m \in Mgrs |-> <<>>]
    /\ last' = [NoCall EXCEPT !.op = "traverse"]
    /\ UNCHANGED <<exists, mLights, mLightsInViewSpace, mDecorated, mStateSetCache,
                   cullCallbacks, registered, returned, stateSetStack, mCollectManager>>

-----------------------------------------------------------------------------
(* Specifications *)

\* one registry driven by the host through its public operations
Next ==
    \/ \E m \in exists : update(m)
    \/ \E m \in exists, l \in LightInputs :
          Len(mLights[m]) < MaxLights /\ addLight(m, l[1], l[2])
    \/ \E m \in exists, cam \in Cameras : prepareForCamera(m, cam)
    \/ \E m \in exists, lightList \in HostLists :
          ValidLightList(m, lightList) /\ getLightListStateSet(m, lightList)

Spec == Init /\ [][Next]_vars

\* the frames of one registry: the update traversal (update, then the light
\* sources register), then the cull traversal running the cull hooks
NextCull ==
    \/ \E m \in exists : update(m)
    \/ \E m \in exists, l \in CullLightInputs :
          /\ Len(mLights[m]) < MaxCullLights
          /\ ~mLightsInViewSpace[m]
          /\ addLight(m, l[1], l[2])
    \/ \E n \in CullNodes, cam \in CullCameras :
          \E i \in DOMAIN cullCallbacks[n] : CullCallback(cullCallbacks[n][i], n, cam)

SpecCull == Init /\ [][NextCull]_vars

\* one registry whose host requests StateSets for explicit light lists
NextHash ==
    \/ \E m \in exists : update(m)
    \/ \E m \in exists, l \in HashLightInputs :
          Len(mLights[m]) < MaxHashLights /\ addLight(m, l[1], l[2])
    \/ \E m \in exists, lightList \in HashLists :
          ValidLightList(m, lightList) /\ getLightListStateSet(m, lightList)

SpecHash == Init /\ [][NextHash]_vars

\* a registry and a copy of it, sharing the children
NextCopy ==
    \/ \E m \in exists : update(m)
    \/ \E copy \in exists, m \in Mgrs : CopyConstruct(copy, m)
    \/ \E m \in exists, l \in CopyLightInputs :
          Len(mLights[m]) < MaxCopyLights /\ addLight(m, l[1], l[2])
    \/ \E n \in CullNodes, cam \in CullCameras :
          \E i \in DOMAIN cullCallbacks[n] : CullCallback(cullCallbacks[n][i], n, cam)

SpecCopy == Init /\ [][NextCopy]_vars

\* one registry used by the host and by the cull traversals of two cameras,
\* in any order of calls
NextRender ==
    \/ \E m \in exists : update(m)
    \/ \E m \in exists, l \in LightInputs :
          Len(mLights[m]) < MaxRenderLights /\ addLight(m, l[1], l[2])
    \/ \E m \in exists, lightList \in RenderLists :
          ValidLightList(m, lightList) /\ getLightListStateSet(m, lightList)
    \/ \E n \in Nodes, cam \in Cameras :
          \E i \in DOMAIN cullCallbacks[n] : CullCallback(cullCallbacks[n][i], n, cam)
    \/ CullVisitor_pushStateSet
    \/ CullVisitor_popStateSet

SpecRender == Init /\ [][NextRender]_vars

\* two default-constructed LightManagers in the scene
InitFrame ==
    /\ exists = Mgrs
    /\ mLights = [m \in Mgrs |-> <<>>]
    /\ mLightsInViewSpace = [m \in Mgrs |-> FALSE]
    /\ mDecorated = [m \in Mgrs |-> FALSE]
    /\ mStateSetCache = [m \in Mgrs |-> EmptyCache]
    /\ cullCallbacks = [n \in Nodes |-> <<>>]
    /\ registered = [m \in Mgrs |-> <<>>]
    /\ returned = [m \in Mgrs |-> {}]
    /\ last = NoCall
    /\ stateSetStack = <<>>
    /\ mCollectManager = [e \in LightSources |-> 0]
    /\ layout = 0
    /\ pos = 0
    /\ frameLog = [m \in Mgrs |-> <<>>]

\* the update traversals of successive frames; the scene may change between frames
NextFrame ==
    \/ \E l \in 1 .. Len(Layouts) : BeginUpdateTraversal(l)
    \/ \E m \in exists : LightManagerUpdateCallback(m)
    \/ \E e \in LightSources :
          /\ pos < Len(Scene(layout))
          /\ \A m \in Mgrs : Len(mLights[m]) < MaxFrameLights
          /\ CollectLightCallback(e, Scene(layout)[pos + 1].path, Scene(layout)[pos + 1].world)

SpecFrame == InitFrame /\ [][NextFrame]_vars

-----------------------------------------------------------------------------
(* Properties *)

\* the members of a light list
Members(lightList) == {lightList[i] : i \in 1 .. Len(lightList)}

\* the view-space bound of node n in a cull traversal of camera cam
NodeViewBound(n, cam) == transformBoundingSphere(ModelViewMatrix(n, cam), NodeBound(n))

\* the indices of the lights of m whose stored view bound intersects node n
Intersecting(m, n, cam) ==
    {i \in 0 .. (Len(mLights[m]) - 1) :
        intersects(mLights[m][i + 1].mViewBound, NodeViewBound(n, cam))}

\* the number of CullCallbacks of manager m attached to node n
Decorations(m, n) == Cardinality({i \in DOMAIN cullCallbacks[n] : cullCallbacks[n][i] = m})

\* C1: immediately after update() returns, the light sequence and the
\* StateSet cache of the manager are empty and its view-space flag is false.
C1_ResetClears ==
    last.op = "update" =>
        /\ mLights[last.mgr] = <<>>
        /\ DOMAIN mStateSetCache[last.mgr] = {}
        /\ ~mLightsInViewSpace[last.mgr]

C1_Witness ==
    /\ last.op = "update"
    /\ mDecorated[last.mgr]
    /\ Len(mLights[last.mgr]) = 0

\* C2: after N addLight calls since the last update(), mLights has exactly N
\* records and the k-th holds the light source and the world matrix of the
\* k-th call; nothing is deduplicated.
C2_RegisteredInOrder ==
    \A m \in exists :
        /\ Len(mLights[m]) = Len(registered[m])
        /\ \A k \in 1 .. Len(registered[m]) :
              /\ mLights[m][k].mLightSource = registered[m][k][1]
              /\ mLights[m][k].mWorldMatrix = registered[m][k][2]

C2_Witness ==
    \E m \in exists :
        /\ Len(registered[m]) = 2
        /\ registered[m][1] = registered[m][2]
        /\ Len(mLights[m]) = 2
        /\ last.op = "addLight"

\* C3: a prepareForCamera call made while the view-space flag is set, with
\* any camera, leaves the flag set and every record (so every view bound)
\* as it was.
C3_PrepareIdempotent ==
    [][\A m \in exists :
          (mLightsInViewSpace[m] /\ last'.op = "prepareForCamera" /\ last'.mgr = m)
              => (mLightsInViewSpace'[m] /\ mLights'[m] = mLights[m])]_vars

C3_Witness ==
    /\ last.op = "prepareForCamera"
    /\ last.cam = 2
    /\ mLightsInViewSpace[last.mgr]
    /\ \E i \in 1 .. Len(mLights[last.mgr]) :
          LET l == mLights[last.mgr][i] IN
          /\ l.mViewBound = viewBoundOf(l, 1)
          /\ l.mViewBound # viewBoundOf(l, 2)

\* C4: a getLightListStateSet call with a list already requested since the
\* last update() returns the StateSet object returned before, builds nothing
\* and leaves the cache as it was.
C4_SameListSameStateSet ==
    [][\A m \in exists :
          (last'.called /\ last'.mgr = m
              /\ \E p \in returned[m] : p.list = last'.list)
          => /\ \A p \in returned[m] : p.list = last'.list => last'.ret.id = p.id
             /\ ~last'.built
             /\ mStateSetCache'[m] = mStateSetCache[m]]_vars

C4_Witness ==
    /\ last.op = "getLightListStateSet"
    /\ last.called
    /\ ~last.built
    /\ last.list = <<1, 0>>
    /\ last.ret.id.from = last.list

\* C5: two getLightListStateSet calls since the last update() with different
\* lists return different StateSet objects, each built for its own list.
C5_DistinctListsDistinctStateSets ==
    \A m \in exists :
        /\ \A p \in returned[m] : p.id.from = p.list
        /\ \A p, q \in returned[m] : p.list # q.list => p.id # q.id

\* C6: after a run of the cull hook, every index of the list it selected is
\* the index of a record whose stored view bound intersects the node's
\* view-space bound.
C6_OnlyIntersecting ==
    last.op = "cull" =>
        Members(last.list) \subseteq Intersecting(last.mgr, last.node, last.cam)

C6_Witness ==
    /\ last.op = "cull"
    /\ last.called
    /\ \E i \in 0 .. (Len(mLights[last.mgr]) - 1) :
          /\ valid(mLights[last.mgr][i + 1].mViewBound)
          /\ i \notin Intersecting(last.mgr, last.node, last.cam)
          /\ i \notin Members(last.list)

\* C7 as claimed: after a run of the cull hook, every record whose stored
\* view bound intersects the node's view-space bound is in the selected list.
C7_EveryIntersecting ==
    last.op = "cull" =>
        Intersecting(last.mgr, last.node, last.cam) \subseteq Members(last.list)

\* C7 amended: after a run of the cull hook, every record whose stored view
\* bound intersects the node's view-space bound, and that has fewer than 8
\* intersecting records before it, is in the selected list.
C7_FirstEightIntersecting ==
    last.op = "cull" =>
        \A i \in Intersecting(last.mgr, last.node, last.cam) :
            Cardinality({j \in Intersecting(last.mgr, last.node, last.cam) : j < i})
                  < MaxLightsPerStateSet
                => i \in Members(last.list)

C7_Witness ==
    /\ last.op = "cull"
    /\ last.called
    /\ Cardinality(Intersecting(last.mgr, last.node, last.cam)) > MaxLightsPerStateSet
    /\ \E i \in 0 .. (Len(mLights[last.mgr]) - 1) :
          i \notin Intersecting(last.mgr, last.node, last.cam)

\* C8: the list the cull hook passes to getLightListStateSet is the
\* intersecting indices in increasing order, cut to the 8 lowest when more
\* than 8 intersect; the hook asks for no StateSet when none intersects.
C8_FirstEightInOrder ==
    last.op = "cull" =>
        LET I == Intersecting(last.mgr, last.node, last.cam)
            n == IF Cardinality(I) > 8 THEN 8 ELSE Cardinality(I)
        IN /\ Len(last.list) = n
           /\ last.called = (n > 0)
           /\ \A k \in 1 .. n :
                 /\ last.list[k] \in I
                 /\ Cardinality({j \in I : j < last.list[k]}) = k - 1

C8_Witness ==
    /\ last.op = "cull"
    /\ Cardinality(Intersecting(last.mgr, last.node, last.cam)) > 8
    /\ Len(last.list) = 8
    /\ 0 \notin Members(last.list)

\* C9: in a StateSet built by getLightListStateSet for list s, the light with
\* light number i is the copy of the light of record s[i], at that light's
\* position moved by the record's world matrix, for every position i of s.
C9_SlotIsPosition ==
    (last.called /\ last.built) =>
        /\ DOMAIN last.ret.attrs = 0 .. (Len(last.list) - 1)
        /\ \A i \in 0 .. (Len(last.list) - 1) :
              LET l == mLights[last.mgr][last.list[i + 1] + 1] IN
              /\ last.ret.attrs[i].light = l.mLightSource
              /\ last.ret.attrs[i].position = LightPosition(l.mLightSource) + l.mWorldMatrix

C9_Witness ==
    /\ last.op = "getLightListStateSet"
    /\ last.built
    /\ last.list = <<1, 0>>
    /\ mLights[last.mgr][1].mLightSource # mLights[last.mgr][2].mLightSource
    /\ last.ret.attrs[0].light = mLights[last.mgr][2].mLightSource

\* C10: after any update() of a manager, one decoration pass has been run
\* for it: each parent of a Geode carries exactly one CullCallback of it.
C10_DecoratedOnce ==
    last.op = "update" => \A n \in Nodes : Decorations(last.mgr, n) = 1

\* the node of the update traversal whose callback ran last
VisitedNode == Scene(layout)[pos]

\* the LightManager nearest to the end of a node path (0: none)
RECURSIVE NearestManager(_, _)
NearestManager(path, i) ==
    IF i = 0 THEN 0
    ELSE IF path[i] # 0 THEN path[i]
    ELSE NearestManager(path, i - 1)

\* the (light source, world matrix) pairs of the records of manager m
Records(m) ==
    [k \in 1 .. Len(mLights[m]) |-> <<mLights[m][k].mLightSource, mLights[m][k].mWorldMatrix>>]

\* the managers that the scene of the current update traversal contains
ManagersOfScene ==
    {Scene(layout)[k].id : k \in {j \in 1 .. Len(Scene(layout)) : Scene(layout)[j].kind = "manager"}}

\* C11: when the collection hook runs for a light source whose node path has
\* no LightManager, and the hook has none resolved, it throws, no manager's
\* light sequence changes and the children are not traversed.
C11_NoManagerThrows ==
    [][(/\ pos < Len(Scene(layout))
        /\ pos' # pos
        /\ Scene(layout)[pos + 1].kind = "light"
        /\ NearestManager(Scene(layout)[pos + 1].path, Len(Scene(layout)[pos + 1].path)) = 0
        /\ mCollectManager[Scene(layout)[pos + 1].id] = 0)
       => (/\ last'.op = "collect"
           /\ last'.threw
           /\ last'.traversals = 0
           /\ mLights' = mLights)]_vars

C11_Witness ==
    /\ last.op = "collect"
    /\ last.threw
    /\ NearestManager(last.path, Len(last.path)) = 0
    /\ mCollectManager[last.source] = 0

\* C12: the collection hook registers the light source with the LightManager
\* nearest to it on its current node path, with its current world matrix.
C12_RegistersWithNearest ==
    (last.op = "collect" /\ ~last.threw) =>
        /\ last.mgr = NearestManager(last.path, Len(last.path))
        /\ Len(mLights[last.mgr]) > 0
        /\ Records(last.mgr)[Len(mLights[last.mgr])] = <<last.source, VisitedNode.world>>

\* C18: when an update traversal has run to its end, the light sequence of
\* every manager of the scene holds exactly the registrations made during
\* that traversal: its reset erased none of them and kept no older record.
C18_ResetBeforeRegistrations ==
    (layout # 0 /\ pos = Len(Scene(layout)) /\ ~last.threw) =>
        \A m \in ManagersOfScene : Records(m) = frameLog[m]

\* C13: every StateSet in a manager's cache holds at most 8 lights and every
\* light number it assigns is in 0..7, also after direct getLightListStateSet
\* calls with an explicit list.
C13_AtMostEightSlots ==
    \A m \in exists : \A h \in DOMAIN mStateSetCache[m] :
        /\ Cardinality(DOMAIN mStateSetCache[m][h].attrs) <= MaxLightsPerStateSet
        /\ DOMAIN mStateSetCache[m][h].attrs \subseteq 0 .. (MaxLightsPerStateSet - 1)

\* C14: a run of the cull hook at a node that no registered light intersects
\* (none registered included) asks for no StateSet, pushes and pops nothing,
\* leaves the cache as it was and traverses the children once.
C14_UnlitNodeUntouched ==
    [][(last'.op = "cull" /\ (Intersecting(last.mgr, last.node, last.cam))' = {})
          => /\ ~last'.called
             /\ last'.entry = stateSetStack
             /\ last'.during = stateSetStack
             /\ stateSetStack' = stateSetStack
             /\ mStateSetCache' = mStateSetCache
             /\ returned' = returned
             /\ last'.traversals = 1]_vars

C14_Witness ==
    /\ last.op = "cull"
    /\ ~last.called
    /\ Len(mLights[last.mgr]) > 0
    /\ \A i \in 1 .. Len(mLights[last.mgr]) : valid(mLights[last.mgr][i].mViewBound)
    /\ Intersecting(last.mgr, last.node, last.cam) = {}
    /\ stateSetStack # <<>>

\* C15: a run of the cull hook traverses the children once; when it pushes
\* a StateSet, the children are traversed with that StateSet on top of the
\* stack of the entry, and on return the stack is the stack of the entry.
C15_PushMatchedByPop ==
    last.op = "cull" =>
        /\ stateSetStack = last.entry
        /\ last.traversals = 1
        /\ last.called => last.during = Append(last.entry, last.ret.id)
        /\ ~last.called => last.during = last.entry

C15_Witness ==
    /\ last.op = "cull"
    /\ last.called
    /\ last.entry # <<>>
    /\ last.during = Append(last.entry, last.ret.id)
    /\ stateSetStack = last.entry

\* the cache of m keeps every entry it has, with the same StateSet
CacheKept(m) ==
    /\ DOMAIN mStateSetCache[m] \subseteq DOMAIN mStateSetCache'[m]
    /\ \A h \in DOMAIN mStateSetCache[m] : mStateSetCache'[m][h] = mStateSetCache[m][h]

\* C16 as claimed: no step other than update() removes or replaces a cache
\* entry, and the cull hook and getLightListStateSet leave mLights as it was.
C16_CacheAppendOnly ==
    [][\A m \in exists :
          /\ ~(last'.op = "update" /\ last'.mgr = m) => CacheKept(m)
          /\ last'.op \in {"cull", "getLightListStateSet"} => mLights'[m] = mLights[m]]_vars

\* C16 amended: no step other than update() removes or replaces a cache
\* entry; the cull hook and getLightListStateSet add, remove and reorder no
\* record and change no record's light source or world matrix; the cull hook
\* changes the records only by storing the view bounds, when the flag is unset.
C16_CacheAppendOnlyRecordsKept ==
    [][\A m \in exists :
          /\ ~(last'.op = "update" /\ last'.mgr = m) => CacheKept(m)
          /\ last'.op \in {"cull", "getLightListStateSet"} => Records(m)' = Records(m)
          /\ last'.op = "getLightListStateSet" => mLights'[m] = mLights[m]
          /\ (last'.op = "cull" /\ mLightsInViewSpace[m]) => mLights'[m] = mLights[m]]_vars

C16_Witness ==
    /\ last.op = "cull"
    /\ last.built
    /\ Cardinality(DOMAIN mStateSetCache[last.mgr]) >= 2
    /\ \E i \in 1 .. Len(mLights[last.mgr]) : valid(mLights[last.mgr][i].mViewBound)

\* C17: the view-space flag of a manager rises only in a prepareForCamera
\* call and falls only in update(); the prepareForCamera call that raises it
\* stores the bounds for its camera, and a later one of the frame changes
\* no record.
C17_FlagOncePerFrame ==
    [][\A m \in exists :
          /\ (~mLightsInViewSpace[m] /\ mLightsInViewSpace'[m])
                => /\ last'.op = "prepareForCamera" /\ last'.mgr = m
                   /\ \A i \in 1 .. Len(mLights'[m]) :
                         mLights'[m][i].mViewBound = viewBoundOf(mLights[m][i], last'.cam)
          /\ (mLightsInViewSpace[m] /\ ~mLightsInViewSpace'[m])
                => last'.op = "update" /\ last'.mgr = m
          /\ (mLightsInViewSpace[m] /\ last'.op = "prepareForCamera" /\ last'.mgr = m)
                => mLightsInViewSpace'[m] /\ mLights'[m] = mLights[m]]_vars

C17_Witness ==
    /\ last.op = "prepareForCamera"
    /\ last.cam = 1
    /\ mLightsInViewSpace[last.mgr]
    /\ Len(mLights[last.mgr]) = 2
    /\ \A i \in 1 .. 2 :
          /\ mLights[last.mgr][i].mViewBound = viewBoundOf(mLights[last.mgr][i], 2)
          /\ mLights[last.mgr][i].mViewBound # viewBoundOf(mLights[last.mgr][i], 1)

\* C19: whenever the view-space flag of a manager is set, every record of
\* its mLights holds the view bound computed for one camera, the camera of
\* the prepareForCamera call that set the flag.
C19_FlagMeansBoundsComputed ==
    \A m \in exists :
        mLightsInViewSpace[m] =>
            \E cam \in Cameras : \A i \in 1 .. Len(mLights[m]) :
                mLights[m][i].mViewBound = viewBoundOf(mLights[m][i], cam)

\* C20: every StateSet in the cache of a manager, so every one
\* getLightListStateSet returns, was built since the last update() from the
\* records mLights holds now, for a list of valid indices; the list the cull
\* hook passes has only valid indices.
C20_BuiltFromCurrentLights ==
    /\ \A m \in exists : \A h \in DOMAIN mStateSetCache[m] :
          LET s == mStateSetCache[m][h] IN
          /\ ValidLightList(m, s.id.from)
          /\ s.attrs = buildAttributes(mLights[m], s.id.from, Len(s.id.from))
    /\ last.called =>
          /\ \E h \in DOMAIN mStateSetCache[last.mgr] : mStateSetCache[last.mgr][h] = last.ret
          /\ ValidLightList(last.mgr, last.list)

C20_Witness ==
    /\ last.op = "cull"
    /\ last.called
    /\ last.built
    /\ mDecorated[last.mgr]
    /\ Len(last.list) = 2
    /\ \E h \in DOMAIN mStateSetCache[last.mgr] : mStateSetCache[last.mgr][h] = last.ret

====
